---- MODULE Spec2Model ----
(***************************************************************************)
(* Model of the gosu-rag ingestion pipeline: IngestionPipeline.ingest and  *)
(* processFile, the HashTracker change tracker, and the oversize splitter  *)
(* splitOversizedChunk.                                                    *)
(*                                                                         *)
(* A file's source text is an abstract content (an element of Contents);   *)
(* what the parser and the chunker make of it is given by HasError and     *)
(* NodeLens.  A chunk is the record of the tree it was cut from, the text  *)
(* it was sliced out of, its position in the output and its length.        *)
(***************************************************************************)
EXTENDS Integers, Sequences, FiniteSets, TLC

(* ------------------------------ bounds -------------------------------- *)

\* number of files discovered under the source root
NumFiles == 2
\* number of successive invocations of ingest
MaxRuns == 2
\* number of modifications the environment makes to the files
MaxMods == 1

(* ------------------------- program constants -------------------------- *)

\* IngestionPipeline.ts:85 has batchSize = 50; the model scales the batch
\* down to two files, so that a batch has concurrent tasks and a run of
\* three files has a later batch.
batchSize == 2
\* IngestionPipeline.ts:262
MAX_CHUNK_SIZE == 30000
\* config/index.ts:11, the default of CHUNK_SIZE
chunkSize == 1000
\* the configured EMBEDDING_CONCURRENCY (config/index.ts:26 admits every
\* positive number; its default is 10)
embeddingConcurrency == 1

Files == 1..NumFiles

(* -------------------------- source contents --------------------------- *)

\* "A": a class with one method          "B": unparsable, nothing extracted
\* "P": parse errors, one unit recovered "E": parses, has no semantic unit
\* "M": one unit longer than chunkSize   "H": one unit over the hard
\* "HH": only a unit over the hard ceiling    ceiling and a small one
Contents == {"A", "B", "P", "E", "M", "H", "HH"}

\* the contents the files are rewritten with
CoreContents == {"A", "B"}

\* tree.rootNode.hasError of the tree parsed from content c
HasError(c) == c \in {"B", "P"}

\* lengths of the non-blank semantic-unit nodes of the tree of c, pre-order
NodeLens(c) ==
    CASE c = "A"  -> <<400, 200>>
      [] c = "B"  -> << >>
      [] c = "P"  -> <<300>>
      [] c = "E"  -> << >>
      [] c = "M"  -> <<1500>>
      [] c = "H"  -> <<40000, 300>>
      [] c = "HH" -> <<40000>>

\* GosuChunker.extractChunks: one chunk per node of the tree, cut out of the
\* source text src, the index being the number of chunks emitted before it
extractChunks(tree, src) ==
    [k \in 1..Len(NodeLens(tree)) |->
        [tree |-> tree, src |-> src, idx |-> k - 1, len |-> NodeLens(tree)[k]]]

RECURSIVE SelectChunks(_, _)
\* chunks.filter(chunk => chunk.content.length <= limit)
SelectChunks(chunks, limit) ==
    IF chunks = << >> THEN << >>
    ELSE IF Head(chunks).len <= limit
         THEN <<Head(chunks)>> \o SelectChunks(Tail(chunks), limit)
         ELSE SelectChunks(Tail(chunks), limit)

(* ----------------------- generateChunkId: the id --------------------- *)

\* An optional value is << >> when it is undefined and <<v>> otherwise.

Digit(d) == SubSeq("0123456789", d + 1, d + 1)

RECURSIVE toString(_)
\* Number.prototype.toString, decimal
toString(n) == IF n < 10 THEN Digit(n) ELSE toString(n \div 10) \o Digit(n % 10)

\* what filter(Boolean) keeps of a string or undefined entry
StringPart(v) == IF v = << >> \/ v = <<"">> THEN << >> ELSE v

\* what filter(Boolean) keeps of a number entry, as join writes it
NumberPart(n) == IF n = 0 THEN << >> ELSE <<toString(n)>>

RECURSIVE join(_, _)
\* Array.prototype.join
join(parts, sep) ==
    IF parts = << >> THEN ""
    ELSE IF Len(parts) = 1 THEN parts[1]
    ELSE parts[1] \o sep \o join(Tail(parts), sep)

\* mutant of generateChunkId: the index takes no part in the id
generateChunkId_noIndex(metadata, chunkIndex) ==
    join(StringPart(<<metadata.relativePath>>)
         \o StringPart(metadata.package)
         \o StringPart(metadata.className)
         \o StringPart(metadata.methodName)
         \o StringPart(<<metadata.chunkType>>)
         \o NumberPart(metadata.lineStart)
         \o NumberPart(metadata.lineEnd)
         \o StringPart(<<SubSeq(metadata.contentHash, 1, 16)>>), ":")

\* mutant of generateChunkId: the path takes no part in the id
generateChunkId_noPath(metadata, chunkIndex) ==
    join(StringPart(metadata.package)
         \o StringPart(metadata.className)
         \o StringPart(metadata.methodName)
         \o StringPart(<<metadata.chunkType>>)
         \o NumberPart(metadata.lineStart)
         \o NumberPart(metadata.lineEnd)
         \o StringPart(<<SubSeq(metadata.contentHash, 1, 16)>>)
         \o (IF chunkIndex # << >> THEN <<toString(chunkIndex[1])>> ELSE << >>),
         ":")

\* generateChunkId: the parts that are truthy, joined with ':'; the MD5
\* digest of the joined string is taken as injective and left out
generateChunkId(metadata, chunkIndex) ==
    join(StringPart(<<metadata.relativePath>>)
         \o StringPart(metadata.package)
         \o StringPart(metadata.className)
         \o StringPart(metadata.methodName)
         \o StringPart(<<metadata.chunkType>>)
         \o NumberPart(metadata.lineStart)
         \o NumberPart(metadata.lineEnd)
         \o StringPart(<<SubSeq(metadata.contentHash, 1, 16)>>)
         \o (IF chunkIndex # << >> THEN <<toString(chunkIndex[1])>> ELSE << >>),
         ":")

(* ---------------------- the chunks of a file -------------------------- *)

\* node types of the semantic-unit nodes of the tree of c, pre-order
NodeTypes(c) ==
    CASE c = "A"  -> <<"class_declaration", "function_declaration">>
      [] c = "B"  -> << >>
      [] c = "P"  -> <<"function_declaration">>
      [] c = "E"  -> << >>
      [] c = "M"  -> <<"class_declaration">>
      [] c = "H"  -> <<"class_declaration", "function_declaration">>
      [] c = "HH" -> <<"class_declaration">>

\* for each of these nodes, the position of the semantic-unit node that
\* encloses it, 0 for a node at the top level
NodeParents(c) ==
    CASE c = "A"  -> <<0, 1>>
      [] c = "B"  -> << >>
      [] c = "P"  -> <<0>>
      [] c = "E"  -> << >>
      [] c = "M"  -> <<0>>
      [] c = "H"  -> <<0, 1>>
      [] c = "HH" -> <<0>>

\* the text of the identifier child of each node
NodeNames(c) ==
    CASE c = "A"  -> <<"Foo", "bar">>
      [] c = "B"  -> << >>
      [] c = "P"  -> <<"baz">>
      [] c = "E"  -> << >>
      [] c = "M"  -> <<"Big">>
      [] c = "H"  -> <<"Huge", "tiny">>
      [] c = "HH" -> <<"Huge">>

\* startPosition.row and endPosition.row of each node
NodeRows(c) ==
    CASE c = "A"  -> <<<<2, 20>>, <<4, 9>>>>
      [] c = "B"  -> << >>
      [] c = "P"  -> <<<<0, 8>>>>
      [] c = "E"  -> << >>
      [] c = "M"  -> <<<<2, 40>>>>
      [] c = "H"  -> <<<<2, 900>>, <<890, 898>>>>
      [] c = "HH" -> <<<<2, 900>>>>

\* whether the root of the tree of c has a package_declaration child
HasPackage(c) == c \in {"A", "M", "H", "HH"}

\* GosuChunker.extractPackage: the package node's range sliced out of ''
extractPackage(tree) == IF HasPackage(tree) THEN <<"">> ELSE << >>

\* GosuChunker.mapNodeTypeToChunkType
mapNodeTypeToChunkType(nodeType) ==
    CASE nodeType = "class_declaration"       -> "class"
      [] nodeType = "interface_declaration"   -> "interface"
      [] nodeType = "enum_declaration"        -> "enum"
      [] nodeType = "enhancement_declaration" -> "class"
      [] nodeType = "function_declaration"    -> "function"
      [] nodeType = "property_declaration"    -> "property"
      [] OTHER -> "file"

\* GosuChunker.isClassLevel
isClassLevel(nodeType) ==
    nodeType \in {"class_declaration", "interface_declaration",
                  "enum_declaration", "enhancement_declaration"}

\* GosuChunker.isMethodLevel
isMethodLevel(nodeType) ==
    nodeType \in {"function_declaration", "property_declaration"}

\* path.relative(sourceRoot, filePath): a file is identified with its path
relativePath(f) == f

\* generateContentHash of the text the node of the chunk covers in src; the
\* digest, and its first 16 characters, are taken as injective on that
\* text, which is given by the source, the tree and the node
generateContentHash(chunk) == <<chunk.src, chunk.tree, chunk.idx>>

\* the node a chunk was made from
NodeOf(chunk) == chunk.idx + 1

\* createChunkFromNode, lines 121-131, and createChunk: the metadata
ChunkMetadata(f, chunk) ==
    LET nodeType == NodeTypes(chunk.tree)[NodeOf(chunk)]
        name == NodeNames(chunk.tree)[NodeOf(chunk)]
        rows == NodeRows(chunk.tree)[NodeOf(chunk)]
    IN [relativePath |-> relativePath(f),
        package |-> extractPackage(chunk.tree),
        className |-> IF isClassLevel(nodeType) THEN <<name>> ELSE << >>,
        methodName |-> IF isMethodLevel(nodeType) THEN <<name>> ELSE << >>,
        chunkType |-> mapNodeTypeToChunkType(nodeType),
        lineStart |-> rows[1] + 1,
        lineEnd |-> rows[2] + 1,
        contentHash |-> generateContentHash(chunk)]

\* the parts generateChunkId joins for a chunk of the pipeline, those that
\* filter(Boolean) keeps: the path and the kind are never empty, the lines
\* are at least 1 and the index is stringified
ChunkParts(metadata, chunkIndex) ==
    <<metadata.relativePath>>
    \o StringPart(metadata.package)
    \o StringPart(metadata.className)
    \o StringPart(metadata.methodName)
    \o <<metadata.chunkType, metadata.lineStart, metadata.lineEnd,
         metadata.contentHash, chunkIndex>>

\* mutant of ChunkId: the id depends on the session that made the chunk
ChunkId_perSession(f, chunk, session) ==
    ChunkParts(ChunkMetadata(f, chunk), chunk.idx) \o <<session>>

\* createChunk: the id of the chunk.  The joined string and its digest are
\* taken as injective on the parts (the names and paths hold no ':')
ChunkId(f, chunk, session) ==
    ChunkParts(ChunkMetadata(f, chunk), chunk.idx)

\* what ChromaAdapter.upsert sends for the chunks of file f
Documents(f, chunks, session) ==
    {[id |-> ChunkId(f, chunks[k], session),
      relativePath |-> relativePath(f)] : k \in DOMAIN chunks}

\* collection.upsert: the documents replace those with the same id
upsert(docs, new) ==
    {d \in docs : \A n \in new : n.id # d.id} \cup new

(* --------------------------- change tracker --------------------------- *)

NoRecord == [present |-> FALSE, hash |-> "", lastModified |-> 0, chunkCount |-> 0]

EmptyCache == [f \in Files |-> NoRecord]

\* mutant of hasFileChanged: an equal modification time counts as newer
hasFileChanged_notOlder(files, path, mtimeMs) ==
    IF ~files[path].present THEN TRUE
    ELSE mtimeMs >= files[path].lastModified

\* mutant of hasFileChanged: any other modification time counts as a change
hasFileChanged_anyOther(files, path, mtimeMs) ==
    IF ~files[path].present THEN TRUE
    ELSE mtimeMs # files[path].lastModified

\* the lastModified of an entry that is not a fingerprint record: undefined
Undefined == -1

\* HashTracker.hasFileChanged, given the mtime that stat returned; a number
\* is not greater than undefined
hasFileChanged(files, path, mtimeMs) ==
    IF ~files[path].present THEN TRUE
    ELSE /\ files[path].lastModified # Undefined
         /\ mtimeMs > files[path].lastModified

\* HashTracker.updateFile's cache.files.set
updateFile(files, path, hash, mtimeMs, chunkCount) ==
    [files EXCEPT ![path] = [present |-> TRUE, hash |-> hash,
                             lastModified |-> mtimeMs, chunkCount |-> chunkCount]]

\* HashTracker.removeFile
removeFile(files, path) == [files EXCEPT ![path] = NoRecord]

(* ------------------------------- state -------------------------------- *)

VARIABLES
    fileContent,   \* file system: the text of each file
    fileMtime,     \* file system: the modification time of each file
    mods,          \* number of modifications made so far
    diskCache,     \* the cache file .rag-cache.json
    cache,         \* HashTracker.cache.files
    run,           \* number of the current invocation of ingest
    pc,            \* position of ingest
    batchStart,    \* the loop variable i of ingest
    task,          \* the per-file tasks of the batch
    results,       \* outcome of each file's task, once settled
    progress,      \* IngestionProgress
    log,           \* entries sent to IngestionLogger.log in this session
    result,        \* IngestionResult returned by ingest
    lastUpsert,    \* vector store: the chunks last upserted for each file
    collection,    \* vector store: the ids of the chunks the collection holds
    chroma,        \* vector store: whether it can be reached and is healthy
    prevFailed,    \* the files whose task failed in the previous run
    ioCalls,       \* HashTracker: the load and save calls of the run so far
    tracker,       \* HashTracker used on its own: the updateFile calls in flight
    query,         \* HashTracker used on its own: the hasFileChanged call
    splitIn,       \* splitOversizedChunk: the chunk, maxSize and overlapSize
    splitPc,       \* splitOversizedChunk: position
    startPos,      \* splitOversizedChunk: startPos
    subChunkIndex, \* splitOversizedChunk: subChunkIndex
    subChunks,     \* splitOversizedChunk: subChunks, and the value returned
    idPc,          \* generateChunkId: position
    metaA,         \* generateChunkId: metadata and index of a first call
    metaB,         \* generateChunkId: metadata and index of a second call
    changed,       \* the fields in which metaB differs from metaA
    chunkIdA,      \* generateChunkId: value returned by the first call
    chunkIdB,      \* generateChunkId: value returned by the second call
    errPc,         \* categorizeError: position
    errMessage,    \* categorizeError: the message, as its sequence of words
    errStatus,     \* categorizeError: value returned
    exPc,          \* extractChunks: position
    exTree,        \* extractChunks: the syntax tree, with the text of each node
    exChunks,      \* extractChunks: value returned
    retry          \* retryWithBackoff: the provider, attempt, calls made and errors caught

vars == <<fileContent, fileMtime, mods, diskCache, cache, run, pc, batchStart,
          task, results, progress, log, result, lastUpsert, collection,
          chroma, prevFailed, tracker, splitIn, splitPc, startPos,
          subChunkIndex, subChunks, idPc, metaA, metaB, changed, chunkIdA,
          chunkIdB, errPc, errMessage, errStatus, ioCalls, query, exPc,
          exTree, exChunks, retry>>

fsVars == <<fileContent, fileMtime, mods>>

splitVars == <<splitIn, splitPc, startPos, subChunkIndex, subChunks>>

idVars == <<idPc, metaA, metaB, changed, chunkIdA, chunkIdB>>

errVars == <<errPc, errMessage, errStatus>>

extractVars == <<exPc, exTree, exChunks>>

\* the variables of the pure functions checked on their own
pureVars == <<idVars, errVars>>

\* what ingest leaves alone
aside == <<tracker, splitVars, pureVars, chroma, query, extractVars, retry>>

pipelineVars == <<diskCache, run, pc, batchStart, task, results, progress, log,
                  result, lastUpsert, collection, prevFailed, ioCalls>>

NoTask == [pc |-> "idle", tree |-> "", chunks |-> << >>, mtime |-> 0,
           threw |-> "", settledAt |-> 0]
NoOutcome == [status |-> "none", chunkCount |-> 0, error |-> ""]
NoResult == [returned |-> FALSE, filesProcessed |-> 0, filesSkipped |-> 0,
             chunksCreated |-> 0, errors |-> 0]
NoProgress == [processedFiles |-> 0, skippedFiles |-> 0, totalChunks |-> 0,
               errors |-> << >>]

Min(a, b) == IF a <= b THEN a ELSE b

\* the text of a path at which there is no file
Deleted == "deleted"

\* lines 69-72: the files discoverFiles finds, in the order of their paths
discovered ==
    SelectSeq([k \in 1..NumFiles |-> k], LAMBDA f : fileContent[f] # Deleted)

\* files.slice(i, i + batchSize), as the sequence of its paths
Batch(i) ==
    [k \in 1..(Min(i + batchSize, Len(discovered)) - i) |-> discovered[i + k]]

BatchFiles(i) == {Batch(i)[k] : k \in 1..Len(Batch(i))}

\* the tasks that have started and have not yet produced an outcome
InFlight == {f \in Files : task[f].pc \notin {"idle", "done"}}

\* no load and no save yet
NoIo == [load |-> 0, save |-> 0]

\* no hasFileChanged call in flight on the tracker
NoQuery == [pc |-> "idle", path |-> 0, mtimeMs |-> 0, answer |-> FALSE]

\* extractChunks is not in use
NoExtract ==
    /\ exPc = "off"
    /\ exTree = << >>
    /\ exChunks = << >>

\* retryWithBackoff is not in use
NoRetry ==
    retry = [pc |-> "off", provider |-> "", maxRetries |-> 0, attempt |-> 0,
             calls |-> 0, caught |-> << >>]

\* no updateFile call in flight on the tracker
NoCall == [pc |-> "idle", mtime |-> 0, chunkCount |-> 0, fresh |-> "no"]

\* splitOversizedChunk is not in use
NoSplit ==
    /\ splitIn = [id |-> << >>, content |-> << >>, lineStart |-> 0,
                  lineEnd |-> 0, maxSize |-> 0, overlapSize |-> 0]
    /\ splitPc = "off"
    /\ startPos = 0
    /\ subChunkIndex = 0
    /\ subChunks = << >>

\* generateChunkId is not in use
NoId ==
    /\ idPc = "off"
    /\ metaA = << >>
    /\ metaB = << >>
    /\ changed = {}
    /\ chunkIdA = ""
    /\ chunkIdB = ""

\* categorizeError is not in use
NoErr ==
    /\ errPc = "off"
    /\ errMessage = << >>
    /\ errStatus = ""

InitFiles ==
    /\ fileMtime = [f \in Files |-> 1]
    /\ mods = 0
    /\ cache = EmptyCache
    /\ tracker = [f \in Files |-> NoCall]
    /\ query = NoQuery

InitPipeline ==
    /\ diskCache = [valid |-> FALSE, files |-> EmptyCache]
    /\ run = 1
    /\ pc = "load"
    /\ batchStart = 0
    /\ task = [f \in Files |-> NoTask]
    /\ results = [f \in Files |-> NoOutcome]
    /\ progress = NoProgress
    /\ log = << >>
    /\ result = NoResult
    /\ lastUpsert = [f \in Files |-> << >>]
    /\ collection = {}
    /\ chroma = "up"
    /\ prevFailed = {}
    /\ ioCalls = NoIo

Init ==
    /\ fileContent \in [Files -> CoreContents]
    /\ InitFiles
    /\ InitPipeline
    /\ NoExtract
    /\ NoRetry
    /\ NoSplit
    /\ NoId
    /\ NoErr

(* ---------------------------- environment ----------------------------- *)

\* the file is rewritten: new text, strictly newer modification time
ModifyFile(f) ==
    /\ mods < MaxMods
    /\ \E c \in CoreContents \ {fileContent[f]} :
          fileContent' = [fileContent EXCEPT ![f] = c]
    /\ fileMtime' = [fileMtime EXCEPT ![f] = @ + 1]
    /\ mods' = mods + 1
    /\ tracker' = [tracker EXCEPT ![f].fresh = "no"]
    /\ UNCHANGED <<cache, pipelineVars, splitVars, pureVars, chroma, query, extractVars, retry>>

(* ------------------------------ ingest -------------------------------- *)

\* HashTracker.load: the cache file is read into the map; a missing or
\* unreadable file leaves an empty map
load(disk) == IF disk.valid THEN disk.files ELSE EmptyCache

\* ingest, line 65
Load ==
    /\ pc = "load"
    /\ cache' = load(diskCache)
    /\ ioCalls' = [ioCalls EXCEPT !.load = @ + 1]
    /\ pc' = "discover"
    /\ UNCHANGED <<aside, fsVars, diskCache, run, batchStart, task,
                   results, progress, log, result, lastUpsert, collection,
                   prevFailed>>

\* ingest, lines 69-87: discovery and the fresh progress record
Discover ==
    /\ pc = "discover"
    /\ progress' = NoProgress
    /\ batchStart' = 0
    /\ pc' = IF 0 < Len(discovered) THEN "launch" ELSE "save"
    /\ UNCHANGED <<aside, fsVars, diskCache, cache, run, task, results,
                   log, result, lastUpsert, collection,
                   prevFailed, ioCalls>>

\* the promises of a batch are dropped when the loop moves on: the order in
\* which they settled is gone
Dropped(t) == [t EXCEPT !.settledAt = 0]

\* mutant of LaunchBatch: the cache file is loaded again for every batch
LaunchBatch_reloads ==
    /\ pc = "launch"
    /\ cache' = load(diskCache)
    /\ ioCalls' = [ioCalls EXCEPT !.load = @ + 1]
    /\ task' = [f \in Files |->
                  IF f \in BatchFiles(batchStart)
                  THEN [NoTask EXCEPT !.pc = "stat"] ELSE Dropped(task[f])]
    /\ pc' = "await"
    /\ UNCHANGED <<aside, fsVars, diskCache, run, batchStart,
                   results, progress, log, result, lastUpsert, collection,
                   prevFailed>>

\* ingest, lines 90-98: batch.map starts the task of every file of the
\* batch; each runs up to its first await, the stat of hasFileChanged
LaunchBatch ==
    /\ pc = "launch"
    /\ task' = [f \in Files |->
                  IF f \in BatchFiles(batchStart)
                  THEN [NoTask EXCEPT !.pc = "stat"] ELSE Dropped(task[f])]
    /\ pc' = "await"
    /\ UNCHANGED <<aside, fsVars, diskCache, cache, run, batchStart,
                   results, progress, log, result, lastUpsert, collection,
                   prevFailed, ioCalls>>

(* -------------------------- the per-file task ------------------------- *)

\* the promises of the batch that have settled so far
SettledSoFar == {g \in BatchFiles(batchStart) : task[g].pc = "done"}

Settled(f, outcome) ==
    /\ task' = [task EXCEPT ![f] = [NoTask EXCEPT !.pc = "done",
                                                  !.threw = task[f].threw,
                                                  !.settledAt = Cardinality(SettledSoFar) + 1]]
    /\ results' = [results EXCEPT ![f] = outcome]

Skipped == [status |-> "skipped", chunkCount |-> 0, error |-> ""]
Processed(n) == [status |-> "processed", chunkCount |-> n, error |-> ""]

\* mutant of TaskCatch: the error is not caught and the promise rejects
TaskCatch_rejects(site) == [status |-> "rejected", chunkCount |-> 0, error |-> site]

\* the catch block of the task, lines 114-125: the error becomes a value
TaskCatch(site) == [status |-> "error", chunkCount |-> 0, error |-> site]

\* the external calls of a task that may throw: the stat of hasFileChanged,
\* parse, embed and upsert; the files are rewritten but never removed, so
\* the reads and the stat that follow a successful parse return
ThrowSites == {"stat", "parse", "embed", "upsert"}

\* mutant of TaskThrow: the error escapes the task and ingest rejects
TaskThrow_escapes(f) ==
    /\ pc = "await"
    /\ task[f].pc \in ThrowSites
    /\ pc' = "rejected"
    /\ UNCHANGED <<aside, fsVars, diskCache, cache, run, batchStart, task,
                   results, progress, log, result, lastUpsert, collection,
                   prevFailed, ioCalls>>

\* mutant of TaskThrow: the catch of the task records a fingerprint
TaskThrow_recorded(f) ==
    /\ pc = "await"
    /\ task[f].pc \in ThrowSites
    /\ task' = [task EXCEPT ![f] = [NoTask EXCEPT !.pc = "done",
                                                  !.threw = task[f].pc,
                                                  !.settledAt = Cardinality(SettledSoFar) + 1]]
    /\ results' = [results EXCEPT ![f] = TaskCatch(task[f].pc)]
    /\ cache' = updateFile(cache, f, fileContent[f], fileMtime[f], 0)
    /\ UNCHANGED <<aside, fsVars, diskCache, run, pc, batchStart,
                   progress, log, result, lastUpsert, collection,
                   prevFailed, ioCalls>>

\* an awaited call of the task of f throws and the task catches the error
TaskThrow(f) ==
    /\ pc = "await"
    /\ task[f].pc \in ThrowSites
    /\ task' = [task EXCEPT ![f] = [NoTask EXCEPT !.pc = "done",
                                                  !.threw = task[f].pc,
                                                  !.settledAt = Cardinality(SettledSoFar) + 1]]
    /\ results' = [results EXCEPT ![f] = TaskCatch(task[f].pc)]
    /\ UNCHANGED <<aside, fsVars, diskCache, cache, run, pc, batchStart,
                   progress, log, result, lastUpsert, collection,
                   prevFailed, ioCalls>>

\* lines 102-105: hasFileChanged returns
TaskStat(f) ==
    /\ pc = "await"
    /\ task[f].pc = "stat"
    /\ IF hasFileChanged(cache, f, fileMtime[f])
       THEN /\ task' = [task EXCEPT ![f].pc = "parse"]
            /\ UNCHANGED results
       ELSE Settled(f, Skipped)
    /\ UNCHANGED <<aside, fsVars, diskCache, cache, run, pc, batchStart,
                   progress, log, result, lastUpsert, collection,
                   prevFailed, ioCalls>>

\* processFile, lines 211-222: parser.parse reads the file and parses it
TaskParse(f) ==
    /\ pc = "await"
    /\ task[f].pc = "parse"
    /\ task' = [task EXCEPT ![f].pc = "read", ![f].tree = fileContent[f]]
    /\ UNCHANGED <<aside, fsVars, diskCache, cache, run, pc, batchStart,
                   results, progress, log, result, lastUpsert, collection,
                   prevFailed, ioCalls>>

\* mutant of validChunksOf: the oversized chunks are not dropped
validChunksOf_all(chunks) == chunks

\* the chunks processFile hands to embed: lines 261-263
validChunksOf(chunks) == SelectChunks(chunks, MAX_CHUNK_SIZE)

\* mutant of TaskRead: the index of a chunk counts on from the files whose
\* chunks other tasks of the batch are holding
TaskRead_sharedIndex(f) ==
    /\ pc = "await"
    /\ task[f].pc = "read"
    /\ LET others == Cardinality({g \in Files \ {f} : task[g].chunks # << >>})
           own == extractChunks(task[f].tree, fileContent[f])
           chunks == [k \in DOMAIN own |-> [own[k] EXCEPT !.idx = @ + others]]
           validChunks == validChunksOf(chunks)
       IN /\ log' = IF Len(chunks) = 0 /\ HasError(task[f].tree)
                    THEN Append(log, [file |-> f, status |-> "parse_error"])
                    ELSE log
          /\ IF Len(chunks) = 0 \/ Len(validChunks) = 0
             THEN Settled(f, Processed(0))
             ELSE /\ task' = [task EXCEPT ![f].pc = "embed",
                                          ![f].chunks = validChunks]
                  /\ UNCHANGED results
    /\ UNCHANGED <<aside, fsVars, diskCache, cache, run, pc, batchStart,
                   progress, result, lastUpsert, collection,
                   prevFailed, ioCalls>>

\* processFile, lines 231-272: the file is read again, the chunks are cut
\* out, a parse error with no chunk is logged, the oversized are dropped;
\* with no chunk left processFile returns [] and the task returns
\* 'processed' without updating the tracker (line 109)
TaskRead(f) ==
    /\ pc = "await"
    /\ task[f].pc = "read"
    /\ LET chunks == extractChunks(task[f].tree, fileContent[f])
           validChunks == validChunksOf(chunks)
       IN /\ log' = IF Len(chunks) = 0 /\ HasError(task[f].tree)
                    THEN Append(log, [file |-> f, status |-> "parse_error"])
                    ELSE log
          /\ IF Len(chunks) = 0 \/ Len(validChunks) = 0
             THEN Settled(f, Processed(0))
             ELSE /\ task' = [task EXCEPT ![f].pc = "embed",
                                          ![f].chunks = validChunks]
                  /\ UNCHANGED results
    /\ UNCHANGED <<aside, fsVars, diskCache, cache, run, pc, batchStart,
                   progress, result, lastUpsert, collection,
                   prevFailed, ioCalls>>

\* mutant of TaskEmbed: the fingerprint is written as soon as the embeddings
\* are there, before the upsert
TaskEmbed_updatesFirst(f) ==
    /\ pc = "await"
    /\ task[f].pc = "embed"
    /\ cache' = updateFile(cache, f, fileContent[f], fileMtime[f],
                           Len(task[f].chunks))
    /\ task' = [task EXCEPT ![f].pc = "upsert"]
    /\ UNCHANGED <<aside, fsVars, diskCache, run, pc, batchStart,
                   results, progress, log, result, lastUpsert, collection,
                   prevFailed, ioCalls>>

\* processFile, line 276: embeddingProvider.embed(texts) returns
TaskEmbed(f) ==
    /\ pc = "await"
    /\ task[f].pc = "embed"
    /\ task' = [task EXCEPT ![f].pc = "upsert"]
    /\ UNCHANGED <<aside, fsVars, diskCache, cache, run, pc, batchStart,
                   results, progress, log, result, lastUpsert, collection,
                   prevFailed, ioCalls>>

\* processFile, lines 279-281: vectorStore.upsert returns; line 109: the
\* chunks are not empty, updateFile is called and awaits its stat
TaskUpsert(f) ==
    /\ pc = "await"
    /\ task[f].pc = "upsert"
    /\ lastUpsert' = [lastUpsert EXCEPT ![f] = task[f].chunks]
    /\ collection' = upsert(collection, Documents(f, task[f].chunks, run))
    /\ task' = [task EXCEPT ![f].pc = "ustat"]
    /\ UNCHANGED <<aside, fsVars, diskCache, cache, run, pc, batchStart,
                   results, progress, log, result, prevFailed, ioCalls>>

\* updateFile, line 266: fs.stat returns
TaskUpdateStat(f) ==
    /\ pc = "await"
    /\ task[f].pc = "ustat"
    /\ task' = [task EXCEPT ![f].pc = "uhash", ![f].mtime = fileMtime[f]]
    /\ UNCHANGED <<aside, fsVars, diskCache, cache, run, pc, batchStart,
                   results, progress, log, result, lastUpsert, collection,
                   prevFailed, ioCalls>>

\* updateFile, lines 267-274: the file is read and hashed and the record is
\* set; the task returns 'processed' (line 113)
TaskUpdateHash(f) ==
    /\ pc = "await"
    /\ task[f].pc = "uhash"
    /\ cache' = updateFile(cache, f, fileContent[f], task[f].mtime,
                           Len(task[f].chunks))
    /\ Settled(f, Processed(Len(task[f].chunks)))
    /\ UNCHANGED <<aside, fsVars, diskCache, run, pc, batchStart,
                   progress, log, result, lastUpsert, collection,
                   prevFailed, ioCalls>>

(* ------------------------ collecting the batch ------------------------ *)

\* mutant of Count: a result that follows an error is not counted
Count_untilError(p, f, value) ==
    CASE p.errors # << >> -> p
      [] value.status = "skipped" ->
            [p EXCEPT !.skippedFiles = @ + 1]
      [] value.status = "processed" ->
            [p EXCEPT !.processedFiles = @ + 1,
                      !.totalChunks = @ + value.chunkCount]
      [] value.status = "error" ->
            [p EXCEPT !.errors = Append(@, f)]
      [] OTHER -> p

\* mutant of Count: a failed file is counted as an error and as skipped
Count_errorTwice(p, f, value) ==
    CASE value.status = "skipped" ->
            [p EXCEPT !.skippedFiles = @ + 1]
      [] value.status = "processed" ->
            [p EXCEPT !.processedFiles = @ + 1,
                      !.totalChunks = @ + value.chunkCount]
      [] value.status = "error" ->
            [p EXCEPT !.errors = Append(@, f), !.skippedFiles = @ + 1]
      [] OTHER -> p

\* lines 131-174: what one settled result adds to the progress record
Count(p, f, value) ==
    CASE value.status = "skipped" ->
            [p EXCEPT !.skippedFiles = @ + 1]
      [] value.status = "processed" ->
            [p EXCEPT !.processedFiles = @ + 1,
                      !.totalChunks = @ + value.chunkCount]
      [] value.status = "error" ->
            [p EXCEPT !.errors = Append(@, f)]
      [] OTHER -> p

\* lines 137-169: the entry one settled result sends to the logger
LogEntries(f, value) ==
    CASE value.status = "skipped" -> <<[file |-> f, status |-> "skipped"]>>
      [] value.status = "processed" -> <<[file |-> f, status |-> "success"]>>
      [] value.status = "error" -> <<[file |-> f, status |-> "error"]>>
      [] OTHER -> << >>

RECURSIVE ReportProgress(_, _)
\* the loop of lines 130-175 over the results, in the order of the batch
ReportProgress(batch, p) ==
    IF batch = << >> THEN p
    ELSE ReportProgress(Tail(batch), Count(p, Head(batch), results[Head(batch)]))

\* mutant of ReportLog: the entries are sent in the order the tasks settled
ReportLog_asSettled(batch) ==
    [k \in 1..Len(batch) |->
        LET f == CHOOSE g \in BatchFiles(batchStart) : task[g].settledAt = k
        IN LogEntries(f, results[f])[1]]

RECURSIVE ReportLog(_)
ReportLog(batch) ==
    IF batch = << >> THEN << >>
    ELSE LogEntries(Head(batch), results[Head(batch)]) \o ReportLog(Tail(batch))

\* mutant of ReportBatch: the loop goes on as soon as one task has settled
ReportBatch_onFirst ==
    /\ pc = "await"
    /\ \E f \in BatchFiles(batchStart) : task[f].pc = "done"
    /\ progress' = ReportProgress(Batch(batchStart), progress)
    /\ log' = log \o ReportLog(Batch(batchStart))
    /\ batchStart' = batchStart + batchSize
    /\ pc' = IF batchStart + batchSize < Len(discovered) THEN "launch" ELSE "save"
    /\ UNCHANGED <<aside, fsVars, diskCache, cache, run, task, results,
                   result, lastUpsert, collection,
                   prevFailed, ioCalls>>

\* lines 97, 130-178: Promise.allSettled resolves when every task of the
\* batch has settled; the results are counted and logged, the loop advances
ReportBatch ==
    /\ pc = "await"
    /\ \A f \in BatchFiles(batchStart) : task[f].pc = "done"
    /\ progress' = ReportProgress(Batch(batchStart), progress)
    /\ log' = log \o ReportLog(Batch(batchStart))
    /\ batchStart' = batchStart + batchSize
    /\ pc' = IF batchStart + batchSize < Len(discovered) THEN "launch" ELSE "save"
    /\ UNCHANGED <<aside, fsVars, diskCache, cache, run, task, results,
                   result, lastUpsert, collection,
                   prevFailed, ioCalls>>

\* mutant of Save: only the fingerprints of the discovered files are written
Save_discoveredOnly ==
    /\ pc = "save"
    /\ diskCache' = [valid |-> TRUE,
                     files |-> [f \in Files |->
                                  IF fileContent[f] # Deleted THEN cache[f]
                                  ELSE NoRecord]]
    /\ ioCalls' = [ioCalls EXCEPT !.save = @ + 1]
    /\ task' = [f \in Files |-> Dropped(task[f])]
    /\ pc' = "return"
    /\ UNCHANGED <<aside, fsVars, cache, run, batchStart, results,
                   progress, log, result, lastUpsert, collection,
                   prevFailed>>

\* HashTracker.save, line 181
Save ==
    /\ pc = "save"
    /\ diskCache' = [valid |-> TRUE, files |-> cache]
    /\ ioCalls' = [ioCalls EXCEPT !.save = @ + 1]
    /\ task' = [f \in Files |-> Dropped(task[f])]
    /\ pc' = "return"
    /\ UNCHANGED <<aside, fsVars, cache, run, batchStart, results,
                   progress, log, result, lastUpsert, collection,
                   prevFailed>>

\* lines 183-203: the aggregate result
Return ==
    /\ pc = "return"
    /\ result' = [returned |-> TRUE,
                  filesProcessed |-> progress.processedFiles,
                  filesSkipped |-> progress.skippedFiles,
                  chunksCreated |-> progress.totalChunks,
                  errors |-> Len(progress.errors)]
    /\ pc' = "done"
    /\ UNCHANGED <<aside, fsVars, diskCache, cache, run, batchStart,
                   task, results, progress, log, lastUpsert, collection,
                   prevFailed, ioCalls>>

\* ingest is invoked again, with a new pipeline, tracker and logger session
NextRun ==
    /\ pc = "done"
    /\ run < MaxRuns
    /\ run' = run + 1
    /\ pc' = "load"
    /\ prevFailed' = {f \in Files : results[f].status \notin {"processed", "skipped"}}
    /\ cache' = EmptyCache
    /\ batchStart' = 0
    /\ task' = [f \in Files |-> NoTask]
    /\ results' = [f \in Files |-> NoOutcome]
    /\ progress' = NoProgress
    /\ log' = << >>
    /\ result' = NoResult
    /\ ioCalls' = NoIo
    /\ UNCHANGED <<aside, fsVars, diskCache, lastUpsert, collection>>

TaskStep ==
    \E f \in Files :
        \/ TaskStat(f)
        \/ TaskParse(f)
        \/ TaskRead(f)
        \/ TaskEmbed(f)
        \/ TaskUpsert(f)
        \/ TaskUpdateStat(f)
        \/ TaskUpdateHash(f)
        \/ TaskThrow(f)

Ingest ==
    \/ Load
    \/ Discover
    \/ LaunchBatch
    \/ TaskStep
    \/ ReportBatch
    \/ Save
    \/ Return

Next ==
    \/ Ingest
    \/ NextRun
    \/ \E f \in Files : ModifyFile(f)

Spec == Init /\ [][Next]_vars


TypeOK ==
    /\ pc \in {"connect", "health", "aborted", "load", "discover", "launch",
              "await", "save", "return", "done"}
    /\ run \in 1..MaxRuns
    /\ mods \in 0..MaxMods

(* ------------------------ the ingest command -------------------------- *)

\* the vector store during one invocation of the command: "unreachable"
\* makes getOrCreateCollection throw, "unhealthy" makes heartbeat throw
ChromaStates == {"up", "unreachable", "unhealthy"}

\* mutant of healthCheck: the result of the heartbeat is ignored
healthCheck_ignored(state) == TRUE

\* ChromaAdapter.healthCheck: false when heartbeat throws
healthCheck(state) == state # "unhealthy"

InitCommand ==
    /\ fileContent \in [Files -> CoreContents]
    /\ fileMtime = [f \in Files |-> 1]
    /\ mods = 0
    /\ cache = EmptyCache
    /\ tracker = [f \in Files |-> NoCall]
    /\ diskCache = [valid |-> FALSE, files |-> EmptyCache]
    /\ run = 1
    /\ pc = "connect"
    /\ batchStart = 0
    /\ task = [f \in Files |-> NoTask]
    /\ results = [f \in Files |-> NoOutcome]
    /\ progress = NoProgress
    /\ log = << >>
    /\ result = NoResult
    /\ lastUpsert = [f \in Files |-> << >>]
    /\ collection = {}
    /\ chroma \in ChromaStates
    /\ prevFailed = {}
    /\ ioCalls = NoIo
    /\ query = NoQuery
    /\ NoExtract
    /\ NoRetry
    /\ NoSplit
    /\ NoId
    /\ NoErr

\* runIngest, line 69, and ChromaAdapter.connect: the error of
\* getOrCreateCollection is thrown again and ends the command
Connect ==
    /\ pc = "connect"
    /\ pc' = IF chroma = "unreachable" THEN "aborted" ELSE "health"
    /\ UNCHANGED <<aside, fsVars, diskCache, cache, run, batchStart, task,
                   results, progress, log, result, lastUpsert, collection,
                   prevFailed, ioCalls>>

\* runIngest, lines 72-80: the health check; the pipeline is constructed
\* and ingest called only when it returns true
HealthCheck ==
    /\ pc = "health"
    /\ pc' = IF healthCheck(chroma) THEN "load" ELSE "aborted"
    /\ UNCHANGED <<aside, fsVars, diskCache, cache, run, batchStart, task,
                   results, progress, log, result, lastUpsert, collection,
                   prevFailed, ioCalls>>

\* the command is run again, after a run that returned or was aborted
RunIngest ==
    /\ pc \in {"done", "aborted"}
    /\ run < MaxRuns
    /\ run' = run + 1
    /\ pc' = "connect"
    /\ chroma' \in ChromaStates
    /\ prevFailed' = {f \in Files : results[f].status \notin {"processed", "skipped"}}
    /\ cache' = EmptyCache
    /\ batchStart' = 0
    /\ task' = [f \in Files |-> NoTask]
    /\ results' = [f \in Files |-> NoOutcome]
    /\ progress' = NoProgress
    /\ log' = << >>
    /\ result' = NoResult
    /\ ioCalls' = NoIo
    /\ UNCHANGED <<tracker, splitVars, pureVars, fsVars, diskCache, lastUpsert,
                   collection, query, extractVars, retry>>

NextCommand ==
    \/ Connect
    \/ HealthCheck
    \/ Ingest
    \/ RunIngest

SpecCommand == InitCommand /\ [][NextCommand]_vars

(* ---------------- the pipeline over contents of every size -------------- *)

\* the first file ranges over every content, the others over the core ones
InitSizes ==
    /\ fileContent \in {fc \in [Files -> Contents] :
                          \A f \in Files \ {1} : fc[f] \in CoreContents}
    /\ InitFiles
    /\ InitPipeline
    /\ NoExtract
    /\ NoRetry
    /\ NoSplit
    /\ NoId
    /\ NoErr

NextSizes ==
    \/ Ingest
    \/ NextRun

SpecSizes == InitSizes /\ [][NextSizes]_vars

\* every call of a run returns or throws: the steps of ingest and of its
\* tasks are taken as long as they are enabled; invoking ingest again is
\* under no obligation
FairSpec == SpecSizes /\ WF_vars(Ingest)

\* the cache file is deleted and ingest is invoked again
RunFresh ==
    /\ pc = "done"
    /\ run < MaxRuns
    /\ run' = run + 1
    /\ pc' = "load"
    /\ diskCache' = [valid |-> FALSE, files |-> EmptyCache]
    /\ prevFailed' = {f \in Files : results[f].status \notin {"processed", "skipped"}}
    /\ cache' = EmptyCache
    /\ batchStart' = 0
    /\ task' = [f \in Files |-> NoTask]
    /\ results' = [f \in Files |-> NoOutcome]
    /\ progress' = NoProgress
    /\ log' = << >>
    /\ result' = NoResult
    /\ ioCalls' = NoIo
    /\ UNCHANGED <<aside, fsVars, lastUpsert, collection>>

NextReingest ==
    \/ Ingest
    \/ RunFresh

\* an unmodified tree ingested again and again, each time with no cache
SpecReingest == InitSizes /\ [][NextReingest]_vars

(* ---------------------- the change tracker alone ---------------------- *)

\* the chunk counts a caller passes to updateFile
ChunkCounts == {0, 2}

\* updateFile(path, n), line 266: fs.stat returns; one call per path at a time
UpdateFileStat(path, n) ==
    /\ tracker[path].pc = "idle"
    /\ tracker' = [tracker EXCEPT ![path] =
                      [pc |-> "hash", mtime |-> fileMtime[path],
                       chunkCount |-> n, fresh |-> "pending"]]
    /\ UNCHANGED <<fsVars, cache, pipelineVars, splitVars, pureVars, chroma, query, extractVars, retry>>

\* updateFile, lines 267-274: the file is read and hashed, the record is set
UpdateFileSet(path) ==
    /\ tracker[path].pc = "hash"
    /\ cache' = updateFile(cache, path, fileContent[path], tracker[path].mtime,
                           tracker[path].chunkCount)
    /\ tracker' = [tracker EXCEPT ![path] =
                      [NoCall EXCEPT !.fresh = IF tracker[path].fresh = "pending"
                                               THEN "yes" ELSE "no"]]
    /\ UNCHANGED <<fsVars, pipelineVars, splitVars, pureVars, chroma, query, extractVars, retry>>

\* removeFile(path), lines 287-289
RemoveFile(path) ==
    /\ cache' = removeFile(cache, path)
    /\ tracker' = [tracker EXCEPT ![path].fresh = "no"]
    /\ UNCHANGED <<fsVars, pipelineVars, splitVars, pureVars, chroma, query, extractVars, retry>>

NextTracker ==
    \E path \in Files :
        \/ \E n \in ChunkCounts : UpdateFileStat(path, n)
        \/ UpdateFileSet(path)
        \/ RemoveFile(path)
        \/ ModifyFile(path)

InitTracker ==
    /\ fileContent = [f \in Files |-> "A"]
    /\ InitFiles
    /\ InitPipeline
    /\ NoExtract
    /\ NoRetry
    /\ NoSplit
    /\ NoId
    /\ NoErr

SpecTracker == InitTracker /\ [][NextTracker]_vars

(* ------------------------ splitOversizedChunk ------------------------- *)

\* longest content, largest maxSize and largest overlapSize tried
MaxContentLen == 9
MaxSplitSize == 4

\* a content of length n; the character at offset k is tagged k + 1, so that
\* two slices are equal only if they are the same slice
ContentOfLen(n) == [k \in 1..n |-> k]

\* line ranges of the parent chunk
LineRanges == {<<1, 1>>, <<3, 7>>}

\* the loop is cut off after this many sub-chunks
MaxSubChunks == MaxContentLen + 2

Clamp(x, n) == IF x < 0 THEN 0 ELSE IF x > n THEN n ELSE x

\* String.prototype.substring(a, b)
substring(content, a, b) ==
    LET ca == Clamp(a, Len(content))
        cb == Clamp(b, Len(content))
    IN SubSeq(content, Min(ca, cb) + 1, IF ca <= cb THEN cb ELSE ca)

InitSplit ==
    /\ fileContent = [f \in Files |-> "A"]
    /\ InitFiles
    /\ InitPipeline
    /\ NoExtract
    /\ NoRetry
    /\ \E n \in 0..MaxContentLen, lines \in LineRanges,
          m \in 1..MaxSplitSize, o \in 0..MaxSplitSize :
          splitIn = [id |-> <<"id">>, content |-> ContentOfLen(n),
                     lineStart |-> lines[1], lineEnd |-> lines[2],
                     maxSize |-> m, overlapSize |-> o]
    /\ splitPc = "call"
    /\ startPos = 0
    /\ subChunkIndex = 0
    /\ subChunks = << >>
    /\ NoId
    /\ NoErr

\* the chunk passed to splitOversizedChunk
ParentChunk == [id |-> splitIn.id, content |-> splitIn.content,
                lineStart |-> splitIn.lineStart, lineEnd |-> splitIn.lineEnd]

\* lines 11-18
SplitCall ==
    /\ splitPc = "call"
    /\ IF Len(splitIn.content) <= splitIn.maxSize
       THEN /\ subChunks' = <<ParentChunk>>
            /\ splitPc' = "done"
       ELSE /\ subChunks' = << >>
            /\ splitPc' = "loop"
    /\ startPos' = 0
    /\ subChunkIndex' = 0
    /\ UNCHANGED <<splitIn, fsVars, cache, tracker, pipelineVars,
                   pureVars, chroma, query, extractVars, retry>>

\* line 22
EndPos(start, maxSize, length) == Min(start + maxSize, length)

\* mutant of NextStartPos: the next window starts where this one ended
NextStartPos_noOverlap(endPos, overlapSize) == endPos

\* line 44
NextStartPos(endPos, overlapSize) == endPos - overlapSize

\* mutant of subChunkId: the index is left out of the id
subChunkId_noIndex(id, index) == id \o <<"_sub">>

\* line 27: `${chunk.id}_sub${subChunkIndex}`
subChunkId(id, index) == id \o <<"_sub", index>>

\* line 32: the characters taken for one line in the estimate of lineStart,
\* 100 in the code, scaled to the contents tried here
charsPerLine == 2

\* mutant of SubChunk: the estimate is taken off the last line of the parent
SubChunk_fromEnd(chunk, index, start, endPos) ==
    [id |-> subChunkId(chunk.id, index),
     content |-> substring(chunk.content, start, endPos),
     lineStart |-> chunk.lineEnd - (start \div charsPerLine),
     lineEnd |-> chunk.lineEnd]

\* lines 26-35
SubChunk(chunk, index, start, endPos) ==
    [id |-> subChunkId(chunk.id, index),
     content |-> substring(chunk.content, start, endPos),
     lineStart |-> chunk.lineStart + (start \div charsPerLine),
     lineEnd |-> chunk.lineEnd]

\* lines 20-47: one turn of the while loop, or its exit
SplitLoop ==
    /\ splitPc = "loop"
    /\ Len(subChunks) < MaxSubChunks
    /\ IF startPos < Len(splitIn.content)
       THEN LET endPos == EndPos(startPos, splitIn.maxSize, Len(splitIn.content))
            IN /\ subChunks' = Append(subChunks,
                        SubChunk(ParentChunk, subChunkIndex, startPos, endPos))
               /\ subChunkIndex' = subChunkIndex + 1
               /\ IF endPos >= Len(splitIn.content)
                  THEN /\ splitPc' = "done"
                       /\ UNCHANGED startPos
                  ELSE /\ splitPc' = "loop"
                       /\ startPos' = NextStartPos(endPos, splitIn.overlapSize)
       ELSE /\ splitPc' = "done"
            /\ UNCHANGED <<subChunks, subChunkIndex, startPos>>
    /\ UNCHANGED <<splitIn, fsVars, cache, tracker, pipelineVars,
                   pureVars, chroma, query, extractVars, retry>>

NextSplit ==
    \/ SplitCall
    \/ SplitLoop

SpecSplit == InitSplit /\ [][NextSplit]_vars

(* --------------------------- generateChunkId -------------------------- *)

\* number of fields in which the two calls may differ
MaxChanges == 2

RelativePaths == {"a.gs", "a.gs:C.gs"}
Packages == {<< >>, <<"">>, <<"pkg">>}
ClassNames == {<< >>, <<"">>, <<"C">>}
MethodNames == {<< >>, <<"m">>}
ChunkTypes == {"class", "function"}
LineStarts == {1, 2}
LineEnds == {2, 12}
\* SHA-256 digests, cut to 20 characters; they differ within the first 16
ContentHashes == {"0123456789abcdef0123", "0123456789abcdee0123"}
ChunkIndexes == {<< >>, <<0>>, <<1>>}

Fields == {"relativePath", "package", "className", "methodName", "chunkType",
           "lineStart", "lineEnd", "contentHash", "chunkIndex"}

FieldValues(field) ==
    CASE field = "relativePath" -> RelativePaths
      [] field = "package"      -> Packages
      [] field = "className"    -> ClassNames
      [] field = "methodName"   -> MethodNames
      [] field = "chunkType"    -> ChunkTypes
      [] field = "lineStart"    -> LineStarts
      [] field = "lineEnd"      -> LineEnds
      [] field = "contentHash"  -> ContentHashes
      [] field = "chunkIndex"   -> ChunkIndexes

Metadatas ==
    [relativePath : RelativePaths, package : Packages, className : ClassNames,
     methodName : MethodNames, chunkType : ChunkTypes, lineStart : LineStarts,
     lineEnd : LineEnds, contentHash : ContentHashes, chunkIndex : ChunkIndexes]

InitId ==
    /\ fileContent = [f \in Files |-> "A"]
    /\ InitFiles
    /\ InitPipeline
    /\ NoExtract
    /\ NoRetry
    /\ NoSplit
    /\ NoErr
    /\ idPc = "input"
    /\ metaA \in Metadatas
    /\ metaB = metaA
    /\ changed = {}
    /\ chunkIdA = ""
    /\ chunkIdB = ""

\* the second call is given another value in one more field
ChangeField(field) ==
    /\ idPc = "input"
    /\ field \notin changed
    /\ Cardinality(changed) < MaxChanges
    /\ \E v \in FieldValues(field) \ {metaA[field]} :
          metaB' = [metaB EXCEPT ![field] = v]
    /\ changed' = changed \cup {field}
    /\ UNCHANGED <<idPc, metaA, chunkIdA, chunkIdB, errVars, fsVars, cache,
                   tracker, pipelineVars, splitVars, chroma, query, extractVars, retry>>

\* the two calls of generateChunkId
GenerateIds ==
    /\ idPc = "input"
    /\ chunkIdA' = generateChunkId(metaA, metaA.chunkIndex)
    /\ chunkIdB' = generateChunkId(metaB, metaB.chunkIndex)
    /\ idPc' = "done"
    /\ UNCHANGED <<metaA, metaB, changed, errVars, fsVars, cache, tracker,
                   pipelineVars, splitVars, chroma, query, extractVars, retry>>

NextId ==
    \/ \E field \in Fields : ChangeField(field)
    \/ GenerateIds

SpecId == InitId /\ [][NextId]_vars

(* --------------------------- categorizeError -------------------------- *)

\* number of fragments an error message is made of
MaxWords == 2

\* fragments of error messages
Fragments == {"429", "Token", "Rate limit", "maximum context length",
              "Syntax", "parse", "chunk", "embed", "chroma", "upsert",
              "timeout"}

RECURSIVE MessagesOf(_)
\* the messages made of n fragments separated by a blank
MessagesOf(n) ==
    IF n = 0 THEN {""}
    ELSE IF n = 1 THEN Fragments
    ELSE {m \o " " \o w : m \in MessagesOf(n - 1), w \in Fragments}

Messages == UNION {MessagesOf(n) : n \in 0..MaxWords}

\* the upper-case letters of the fragments
lowerChar(ch) ==
    CASE ch = "T" -> "t"
      [] ch = "R" -> "r"
      [] ch = "S" -> "s"
      [] OTHER -> ch

RECURSIVE toLowerCase(_)
\* String.prototype.toLowerCase
toLowerCase(str) ==
    IF Len(str) = 0 THEN ""
    ELSE lowerChar(SubSeq(str, 1, 1)) \o toLowerCase(SubSeq(str, 2, Len(str)))

\* String.prototype.includes
includes(str, key) ==
    \E i \in 1..(Len(str) - Len(key) + 1) : SubSeq(str, i, i + Len(key) - 1) = key

\* mutant of categorizeError: the rate-limit rule is tried before the
\* token-limit rule
categorizeError_rateFirst(message) ==
    LET lowerMessage == toLowerCase(message)
    IN IF includes(lowerMessage, "rate limit") \/ includes(lowerMessage, "429")
       THEN "rate_limit"
       ELSE IF includes(lowerMessage, "maximum context length")
          \/ includes(lowerMessage, "token")
       THEN "token_limit"
       ELSE IF includes(lowerMessage, "parse") \/ includes(lowerMessage, "syntax")
       THEN "parse_error"
       ELSE IF includes(lowerMessage, "chunk")
       THEN "chunk_error"
       ELSE IF includes(lowerMessage, "embed")
       THEN "embedding_error"
       ELSE IF includes(lowerMessage, "chroma") \/ includes(lowerMessage, "upsert")
       THEN "storage_error"
       ELSE "unknown_error"

\* categorizeError, lines 161-183
categorizeError(message) ==
    LET lowerMessage == toLowerCase(message)
    IN IF includes(lowerMessage, "maximum context length")
          \/ includes(lowerMessage, "token")
       THEN "token_limit"
       ELSE IF includes(lowerMessage, "rate limit") \/ includes(lowerMessage, "429")
       THEN "rate_limit"
       ELSE IF includes(lowerMessage, "parse") \/ includes(lowerMessage, "syntax")
       THEN "parse_error"
       ELSE IF includes(lowerMessage, "chunk")
       THEN "chunk_error"
       ELSE IF includes(lowerMessage, "embed")
       THEN "embedding_error"
       ELSE IF includes(lowerMessage, "chroma") \/ includes(lowerMessage, "upsert")
       THEN "storage_error"
       ELSE "unknown_error"

InitErr ==
    /\ fileContent = [f \in Files |-> "A"]
    /\ InitFiles
    /\ InitPipeline
    /\ NoExtract
    /\ NoRetry
    /\ NoSplit
    /\ NoId
    /\ errPc = "call"
    /\ errMessage \in Messages
    /\ errStatus = ""

\* the call of categorizeError returns
Categorize ==
    /\ errPc = "call"
    /\ errStatus' = categorizeError(errMessage)
    /\ errPc' = "done"
    /\ UNCHANGED <<errMessage, idVars, fsVars, cache, tracker, pipelineVars,
                   splitVars, chroma, query, extractVars, retry>>

NextErr == Categorize

SpecErr == InitErr /\ [][NextErr]_vars

(* ------------------- hasFileChanged on the tracker ------------------- *)

\* the file is replaced by an older copy: other text, older modification time
RestoreFile(path) ==
    /\ mods < MaxMods
    /\ fileMtime[path] > 0
    /\ \E c \in CoreContents \ {fileContent[path]} :
          fileContent' = [fileContent EXCEPT ![path] = c]
    /\ fileMtime' = [fileMtime EXCEPT ![path] = @ - 1]
    /\ mods' = mods + 1
    /\ tracker' = [tracker EXCEPT ![path].fresh = "no"]
    /\ UNCHANGED <<cache, pipelineVars, splitVars, pureVars, chroma, query,
                   extractVars, retry>>

\* hasFileChanged(path), line 244: fs.stat returns; one call at a time
HasFileChangedStat(path) ==
    /\ query.pc \in {"idle", "returned"}
    /\ query' = [pc |-> "stat", path |-> path, mtimeMs |-> fileMtime[path],
                 answer |-> FALSE]
    /\ UNCHANGED <<fsVars, cache, tracker, pipelineVars, splitVars, pureVars,
                   chroma, extractVars, retry>>

\* hasFileChanged, lines 245-251: the record is looked up and compared
HasFileChangedReturn ==
    /\ query.pc = "stat"
    /\ query' = [query EXCEPT !.pc = "returned",
                              !.answer = hasFileChanged(cache, query.path,
                                                        query.mtimeMs)]
    /\ UNCHANGED <<fsVars, cache, tracker, pipelineVars, splitVars, pureVars,
                   chroma, extractVars, retry>>

\* the calls of hasFileChanged among updates of the fingerprints and
\* rewrites of the files
NextQuery ==
    \/ \E path \in Files :
          \/ UpdateFileStat(path, 2)
          \/ UpdateFileSet(path)
          \/ ModifyFile(path)
          \/ RestoreFile(path)
          \/ HasFileChangedStat(path)
    \/ HasFileChangedReturn

SpecQuery == InitTracker /\ [][NextQuery]_vars

(* ------------------ extractChunks over syntax trees ------------------ *)

\* the largest number of nodes below the root of a syntax tree
MaxNodes == 3

\* largest maxRetries tried (the providers call with 10 and 5)
MaxRetries == 2

\* config.gosuSemanticUnits, its default
gosuSemanticUnits ==
    {"class_declaration", "interface_declaration", "enum_declaration",
     "enhancement_declaration", "function_declaration", "property_declaration"}

\* GosuChunker.isSemanticUnit
isSemanticUnit(nodeType) == nodeType \in gosuSemanticUnits

\* the kinds of node of the trees: the type and the text of the source code
\* between startIndex and endIndex
NodeLabels ==
    {[type |-> "package_declaration", text |-> "package demo"],
     [type |-> "class_declaration", text |-> "class Foo {}"],
     [type |-> "function_declaration", text |-> "function bar() {}"],
     [type |-> "function_declaration", text |-> " "],
     [type |-> "block", text |-> "{}"]}

RECURSIVE Forests(_)
\* the sequences of trees with n nodes in all
Forests(n) ==
    IF n = 0 THEN {<< >>}
    ELSE UNION {{<<[type |-> l.type, text |-> l.text, children |-> c]>> \o rest :
                    l \in NodeLabels, c \in Forests(k - 1), rest \in Forests(n - k)} :
                k \in 1..n}

\* tree.rootNode of the trees with at most MaxNodes nodes below the root
SyntaxTrees ==
    UNION {{[type |-> "source_file", text |-> "source", children |-> c] :
               c \in Forests(n)} : n \in 0..MaxNodes}

\* String.prototype.trim, on the texts of the nodes
trim(text) == IF text \in {"", " "} THEN "" ELSE text

\* GosuChunker.getNodeText: the slice of sourceCode over the range of the
\* node; the slice of the empty string is empty
getNodeText(node, sourceCode) == IF sourceCode = "" THEN "" ELSE node.text

\* GosuChunker.findChild: the first child of the type, null as << >>
findChild(node, type) ==
    LET found == {i \in DOMAIN node.children : node.children[i].type = type}
    IN IF found = {} THEN << >>
       ELSE <<node.children[CHOOSE i \in found : \A j \in found : i <= j]>>

\* GosuChunker.extractPackage on a root node, undefined as << >>
GosuChunker_extractPackage(node) ==
    LET packageNode == findChild(node, "package_declaration")
    IN IF packageNode # << >>
       THEN <<getNodeText(packageNode[1], "")>>
       ELSE << >>

\* GosuChunker.createChunkFromNode, null as << >>; where is the path from the
\* root to the node, which stands for its range and its lines
createChunkFromNode(node, where, packageName, sourceCode, chunkIndex) ==
    LET content == getNodeText(node, sourceCode)
    IN IF trim(content) = "" THEN << >>
       ELSE <<[node |-> where, content |-> content, package |-> packageName,
               chunkType |-> mapNodeTypeToChunkType(node.type),
               chunkIndex |-> chunkIndex]>>

RECURSIVE traverseNode(_, _, _, _, _)
RECURSIVE traverseChildren(_, _, _, _, _, _)

\* mutant of traverseNode: the children of a node that gave a chunk are skipped
traverseNode_noNesting(node, where, packageName, sourceCode, chunks) ==
    LET chunk == IF isSemanticUnit(node.type)
                 THEN createChunkFromNode(node, where, packageName, sourceCode,
                                          Len(chunks))
                 ELSE << >>
    IN IF chunk # << >> THEN chunks \o chunk
       ELSE traverseChildren(node, where, packageName, sourceCode, 1, chunks)

\* GosuChunker.traverseNode: the chunks array after the call
traverseNode(node, where, packageName, sourceCode, chunks) ==
    LET chunk == IF isSemanticUnit(node.type)
                 THEN createChunkFromNode(node, where, packageName, sourceCode,
                                          Len(chunks))
                 ELSE << >>
    IN traverseChildren(node, where, packageName, sourceCode, 1, chunks \o chunk)

\* the loop of traverseNode over the children, from child i on
traverseChildren(node, where, packageName, sourceCode, i, chunks) ==
    IF i > Len(node.children) THEN chunks
    ELSE traverseChildren(node, where, packageName, sourceCode, i + 1,
                          traverseNode(node.children[i], Append(where, i),
                                       packageName, sourceCode, chunks))

InitExtract ==
    /\ fileContent = [f \in Files |-> "A"]
    /\ InitFiles
    /\ InitPipeline
    /\ NoSplit
    /\ NoId
    /\ NoErr
    /\ exPc = "call"
    /\ exTree \in SyntaxTrees
    /\ exChunks = << >>
    /\ NoRetry

\* GosuChunker.extractChunks(tree, filePath, sourceCode) returns
ExtractChunks ==
    /\ exPc = "call"
    /\ exChunks' = traverseNode(exTree, << >>, GosuChunker_extractPackage(exTree),
                                exTree.text, << >>)
    /\ exPc' = "done"
    /\ UNCHANGED <<exTree, idVars, errVars, fsVars, cache, tracker, pipelineVars,
                   splitVars, chroma, query, retry>>

NextExtract == ExtractChunks

SpecExtract == InitExtract /\ [][NextExtract]_vars

(* ------------------- files that leave the source tree ----------------- *)

\* a file is deleted from the tree between two runs
DeleteFile(f) ==
    /\ pc = "done"
    /\ mods < MaxMods
    /\ fileContent[f] # Deleted
    /\ fileContent' = [fileContent EXCEPT ![f] = Deleted]
    /\ mods' = mods + 1
    /\ UNCHANGED <<fileMtime, tracker, cache, pipelineVars, splitVars, pureVars,
                   chroma, query, extractVars, retry>>

\* the caller of the pipeline calls removeFile(path) after a run
RemoveAfterRun(path) ==
    /\ pc = "done"
    /\ RemoveFile(path)

NextDeleted ==
    \/ Ingest
    \/ NextRun
    \/ \E f \in Files : DeleteFile(f)
    \/ \E path \in Files : RemoveAfterRun(path)

SpecDeleted == Init /\ [][NextDeleted]_vars

(* ------------------- cache files of every condition ------------------- *)

\* an entry of the files object that is not a fingerprint record, as
\* Object.entries hands it to the map
Foreign == [present |-> TRUE, hash |-> "", lastModified |-> Undefined,
            chunkCount |-> 0]

\* a fingerprint record of an earlier run
Earlier == [present |-> TRUE, hash |-> "A", lastModified |-> 1, chunkCount |-> 2]

\* the cache file before the first run: missing; unreadable or cut short, so
\* that readFile or JSON.parse throws; a JSON document whose files object
\* holds entries that are not fingerprint records
CacheFiles ==
    {[valid |-> FALSE, files |-> EmptyCache],
     [valid |-> FALSE, files |-> [f \in Files |-> Earlier]],
     [valid |-> TRUE, files |-> [f \in Files |-> Foreign]],
     [valid |-> TRUE, files |-> [f \in Files |-> IF f = 1 THEN Foreign ELSE NoRecord]]}

InitTorn ==
    /\ fileContent \in [Files -> CoreContents]
    /\ InitFiles
    /\ diskCache \in CacheFiles
    /\ run = 1
    /\ pc = "load"
    /\ batchStart = 0
    /\ task = [f \in Files |-> NoTask]
    /\ results = [f \in Files |-> NoOutcome]
    /\ progress = NoProgress
    /\ log = << >>
    /\ result = NoResult
    /\ lastUpsert = [f \in Files |-> << >>]
    /\ collection = {}
    /\ chroma = "up"
    /\ prevFailed = {}
    /\ ioCalls = NoIo
    /\ NoExtract
    /\ NoRetry
    /\ NoSplit
    /\ NoId
    /\ NoErr

SpecTorn == InitTorn /\ [][NextSizes]_vars

(* -------------------------- retryWithBackoff -------------------------- *)

Providers == {"google", "openai"}

\* the errors fn throws: the status the client sets, if any, and the message
ProviderErrors ==
    [status : {429, 500, Undefined},
     message : {"Rate limit reached", "rate limit reached",
                "429 too many requests", "quota exceeded", "timeout"}]

\* mutant of isRateLimit: every error counts as a rate limit
isRateLimit_always(provider, error) == TRUE

\* GoogleEmbeddingProvider lines 70-74, OpenAIEmbeddingProvider lines 76-79
isRateLimit(provider, error) ==
    \/ error.status = 429
    \/ includes(error.message, "429")
    \/ includes(error.message, "Rate limit")
    \/ provider = "google" /\ includes(error.message, "quota")

InitRetry ==
    /\ fileContent = [f \in Files |-> "A"]
    /\ InitFiles
    /\ InitPipeline
    /\ NoExtract
    /\ NoSplit
    /\ NoId
    /\ NoErr
    /\ \E p \in Providers, m \in 0..MaxRetries :
          retry = [pc |-> "try", provider |-> p, maxRetries |-> m,
                   attempt |-> 0, calls |-> 0, caught |-> << >>]

\* return await fn(): the call returns
RetryReturn ==
    /\ retry.pc = "try"
    /\ retry' = [retry EXCEPT !.pc = "returned", !.calls = @ + 1]
    /\ UNCHANGED <<fsVars, cache, pipelineVars, tracker, splitVars, pureVars,
                   chroma, query, extractVars>>

\* fn throws: the error is thrown on, or the loop sleeps before the next
\* attempt
RetryCatch(error) ==
    /\ retry.pc = "try"
    /\ retry' = [retry EXCEPT
                   !.calls = @ + 1,
                   !.caught = Append(@, error),
                   !.pc = IF ~isRateLimit(retry.provider, error)
                             \/ retry.attempt = retry.maxRetries
                          THEN "thrown" ELSE "sleep"]
    /\ UNCHANGED <<fsVars, cache, pipelineVars, tracker, splitVars, pureVars,
                   chroma, query, extractVars>>

\* the sleep ends and the loop goes to the next attempt
RetrySleep ==
    /\ retry.pc = "sleep"
    /\ retry' = [retry EXCEPT
                   !.attempt = @ + 1,
                   !.pc = IF retry.attempt + 1 <= retry.maxRetries
                          THEN "try" ELSE "thrown"]
    /\ UNCHANGED <<fsVars, cache, pipelineVars, tracker, splitVars, pureVars,
                   chroma, query, extractVars>>

NextRetry ==
    \/ RetryReturn
    \/ \E error \in ProviderErrors : RetryCatch(error)
    \/ RetrySleep

SpecRetry == InitRetry /\ [][NextRetry]_vars

(* --------------------- runs after a failed task ----------------------- *)

\* ingest is invoked again; the files whose task failed are remembered with
\* the call that threw
RunAgain ==
    /\ pc = "done"
    /\ run < MaxRuns
    /\ run' = run + 1
    /\ pc' = "load"
    /\ prevFailed' = {<<f, results[f].error>> :
                         f \in {g \in Files : results[g].status = "error"}}
    /\ cache' = EmptyCache
    /\ batchStart' = 0
    /\ task' = [f \in Files |-> NoTask]
    /\ results' = [f \in Files |-> NoOutcome]
    /\ progress' = NoProgress
    /\ log' = << >>
    /\ result' = NoResult
    /\ ioCalls' = NoIo
    /\ UNCHANGED <<aside, fsVars, diskCache, lastUpsert, collection>>

\* a file is rewritten between two runs
ModifyBetweenRuns(f) ==
    /\ pc = "done"
    /\ ModifyFile(f)

NextRetried ==
    \/ Ingest
    \/ RunAgain
    \/ \E f \in Files : ModifyBetweenRuns(f)

\* the chunks a run stores for a file of text "A"
EarlierChunks == validChunksOf(extractChunks("A", "A"))

\* before the first run of the model: nothing was ingested yet, or an
\* earlier run has processed every file and saved their fingerprints
InitRetried ==
    /\ fileContent = [f \in Files |-> "A"]
    /\ InitFiles
    /\ \/ /\ diskCache = [valid |-> FALSE, files |-> EmptyCache]
          /\ lastUpsert = [f \in Files |-> << >>]
          /\ collection = {}
       \/ /\ diskCache = [valid |-> TRUE, files |-> [f \in Files |-> Earlier]]
          /\ lastUpsert = [f \in Files |-> EarlierChunks]
          /\ collection = UNION {Documents(f, EarlierChunks, 1) : f \in Files}
    /\ run = 1
    /\ pc = "load"
    /\ batchStart = 0
    /\ task = [f \in Files |-> NoTask]
    /\ results = [f \in Files |-> NoOutcome]
    /\ progress = NoProgress
    /\ log = << >>
    /\ result = NoResult
    /\ chroma = "up"
    /\ prevFailed = {}
    /\ ioCalls = NoIo
    /\ NoExtract
    /\ NoRetry
    /\ NoSplit
    /\ NoId
    /\ NoErr

SpecRetried == InitRetried /\ [][NextRetried]_vars

(* ======================= properties of ingest ========================= *)

Threw(f) == task[f].threw

NoThrow == \A f \in Files : Threw(f) = ""

C2_Idempotence ==
    (/\ pc = "done"
     /\ run > 1
     /\ mods = 0
     /\ NoThrow
     /\ prevFailed = {})
    => /\ result.filesSkipped = NumFiles
       /\ result.filesProcessed = 0
       /\ result.chunksCreated = 0

\* the chunks last upserted for f were extracted from its current content
StoreCurrent(f) ==
    /\ lastUpsert[f] # << >>
    /\ \A k \in DOMAIN lastUpsert[f] :
          /\ lastUpsert[f][k].tree = fileContent[f]
          /\ lastUpsert[f][k].src = fileContent[f]

\* C3: no false negatives.  Whenever a task settles as skipped (its
\* hasFileChanged returned false), the chunks last upserted for the file
\* were extracted from the content the file has at that moment.
C3_NoFalseNegative ==
    [][\A f \in Files :
          (results[f].status = "none" /\ results'[f].status = "skipped")
          => StoreCurrent(f)]_vars

\* C4: change-tracker convergence.  Once an updateFile(path, n) call has
\* completed, and the file was not modified nor the path removed since that
\* call began, hasFileChanged(path) is false, whatever n was and whatever
\* updateFile and removeFile calls were made on other paths.
C4_Convergence ==
    \A path \in Files :
        tracker[path].fresh = "yes"
        => ~hasFileChanged(cache, path, fileMtime[path])

\* updateFile(1, 0) has completed on an unmodified file 1; file 2 has been
\* modified, its record is removed and another updateFile(2, n) is in flight
C4_Witness ==
    /\ tracker[1].fresh = "yes"
    /\ cache[1].present /\ cache[1].chunkCount = 0
    /\ fileMtime[2] > cache[1].lastModified
    /\ ~cache[2].present /\ tracker[2].pc = "hash" /\ tracker[2].fresh = "no"

\* C5: bounded concurrency.  The number of tasks started and not yet
\* settled never exceeds the configured concurrency.
C5_BoundedConcurrency == Cardinality(InFlight) <= embeddingConcurrency

Unparsable == {f \in Files : HasError(fileContent[f])
                             /\ NodeLens(fileContent[f]) = << >>}

\* C7: at the end of a first run with no modification and no call throwing,
\* the unparsable files are counted in errors and not in filesProcessed.
C7_ParseErrorOutcome ==
    (pc = "done" /\ run = 1 /\ mods = 0 /\ NoThrow)
    => /\ result.errors = Cardinality(Unparsable)
       /\ result.filesProcessed = NumFiles - Cardinality(Unparsable)

(* ==================== properties of processFile ======================= *)

\* the chunks of the calls embed(texts) and upsert(chunks) in flight
Handed(f) == IF task[f].pc \in {"embed", "upsert"} THEN task[f].chunks ELSE << >>

\* C8: no chunk handed to embed or upsert is longer than chunkSize.
C8_SplitBeforeEmbed ==
    \A f \in Files : \A k \in DOMAIN Handed(f) : Handed(f)[k].len <= chunkSize

\* number of units of content c that are not over the hard ceiling
KeptCount(c) ==
    Cardinality({k \in DOMAIN NodeLens(c) : NodeLens(c)[k] <= MAX_CHUNK_SIZE})

Window(k) == subChunks[k].content

RECURSIVE Rebuild(_, _)
\* the windows joined, each but the first without its first o characters
Rebuild(chunks, o) ==
    IF chunks = << >> THEN << >>
    ELSE Rebuild(SubSeq(chunks, 1, Len(chunks) - 1), o)
         \o (IF Len(chunks) = 1 THEN chunks[1].content
             ELSE SubSeq(chunks[Len(chunks)].content, o + 1,
                         Len(chunks[Len(chunks)].content)))

\* the characters (offsets) two windows share
Shared(a, b) == {a[i] : i \in DOMAIN a} \cap {b[i] : i \in DOMAIN b}

\* C10: split correctness.  For overlapSize < maxSize the value returned is
\* the input alone when the content is not longer than maxSize, and
\* otherwise ceil((L-O)/(M-O)) windows of at most maxSize characters, each
\* sharing exactly its last overlapSize characters with the start of the
\* next, which joined without the overlaps give the content, the last one
\* ending at the end of the content.
C10_SplitCorrect ==
    LET L == Len(splitIn.content)
        M == splitIn.maxSize
        O == splitIn.overlapSize
        n == Len(subChunks)
    IN (splitPc = "done" /\ O < M)
       => IF L <= M
          THEN subChunks = <<ParentChunk>>
          ELSE /\ n = ((L - O) + (M - O) - 1) \div (M - O)
               /\ \A k \in 1..n : Len(Window(k)) <= M
               /\ \A k \in 1..(n - 1) :
                     /\ Cardinality(Shared(Window(k), Window(k + 1))) = O
                     /\ SubSeq(Window(k), Len(Window(k)) - O + 1, Len(Window(k)))
                        = SubSeq(Window(k + 1), 1, O)
               /\ Rebuild(subChunks, O) = splitIn.content
               /\ Window(n)[Len(Window(n))] = L

\* a content split into at least three windows that overlap, the last one
\* shorter than maxSize
C10_Witness ==
    /\ splitPc = "done"
    /\ splitIn.overlapSize > 0
    /\ splitIn.overlapSize < splitIn.maxSize
    /\ Len(subChunks) >= 3
    /\ Len(Window(Len(subChunks))) < splitIn.maxSize

\* C11: splitter guard.  A call on a content longer than maxSize returns a
\* bounded number of sub-chunks, at most one per character of the content,
\* whatever the overlap: every turn of the loop starts a window further on.
C11_SplitterGuard ==
    (splitPc \in {"loop", "done"} /\ Len(splitIn.content) > splitIn.maxSize)
    => /\ Len(subChunks) <= Len(splitIn.content)
       /\ \A k \in 1..(Len(subChunks) - 1) :
             Window(k)[1] < Window(k + 1)[1]

SubChunkIds == {subChunks[k].id : k \in DOMAIN subChunks}

\* C12: split identity uniqueness.  The ids of the sub-chunks made from an
\* oversized parent are pairwise distinct and none is the parent's id.
C12_SplitIdsUnique ==
    (splitPc \in {"loop", "done"} /\ Len(splitIn.content) > splitIn.maxSize)
    => /\ Cardinality(SubChunkIds) = Len(subChunks)
       /\ ParentChunk.id \notin SubChunkIds

\* an oversized parent was split into four sub-chunks without overlap
C12_Witness ==
    /\ splitPc = "done"
    /\ splitIn.overlapSize = 0
    /\ Len(splitIn.content) > splitIn.maxSize
    /\ Len(subChunks) = 4
    /\ Cardinality(SubChunkIds) = 4

(* ================== properties of generateChunkId ===================== *)

\* C13: identity determinism and sensitivity.  Two calls with the same
\* metadata and index return the same id, and two calls that differ in
\* exactly one field (an optional field undefined against the empty string
\* included) return different ids.
C13_IdSensitive ==
    idPc = "done"
    => /\ changed = {} => chunkIdA = chunkIdB
       /\ Cardinality(changed) = 1 => chunkIdA # chunkIdB

\* C14: two chunks of one file, each with its own ordinal index as passed
\* by traverseNode, have different ids whatever their other fields.
C14_IdsDistinctInFile ==
    (/\ idPc = "done"
     /\ metaA.relativePath = metaB.relativePath
     /\ metaA.chunkIndex # << >>
     /\ metaB.chunkIndex # << >>
     /\ metaA.chunkIndex # metaB.chunkIndex)
    => chunkIdA # chunkIdB

\* two chunks equal in every field but the ordinal index, 0 against 1
C14_Witness ==
    /\ idPc = "done"
    /\ changed = {"chunkIndex"}
    /\ metaA.chunkIndex = <<0>>
    /\ metaB.chunkIndex = <<1>>
    /\ chunkIdA # chunkIdB

\* C15: two chunks with different relative paths have different ids,
\* whatever their other fields.
C15_IdsDistinctAcrossFiles ==
    (idPc = "done" /\ metaA.relativePath # metaB.relativePath)
    => chunkIdA # chunkIdB

\* two chunks equal in every field but the path, index included
C15_Witness ==
    /\ idPc = "done"
    /\ changed = {"relativePath"}
    /\ metaA.chunkIndex = <<0>>
    /\ metaA.className = <<"C">>
    /\ chunkIdA # chunkIdB

(* ================== properties of categorizeError ===================== *)

\* the keywords of the classifier
Keywords == {"maximum context length", "token", "rate limit", "429", "parse",
             "syntax", "chunk", "embed", "chroma", "upsert"}

\* C16: classifier coverage.  A message containing "429" (and not "maximum
\* context length") classifies as rate_limit, a message containing "maximum
\* context length" as token_limit, and a message containing no keyword, in
\* whatever case, as unknown_error.
C16_ClassifierCoverage ==
    errPc = "done"
    => /\ (includes(errMessage, "429")
           /\ ~includes(errMessage, "maximum context length"))
          => errStatus = "rate_limit"
       /\ includes(errMessage, "maximum context length")
          => errStatus = "token_limit"
       /\ (\A key \in Keywords : ~includes(toLowerCase(errMessage), key))
          => errStatus = "unknown_error"

(* =================== properties of the ingest command ================= *)

\* C17: a run-level failure precedes file processing.  In an invocation
\* whose vector store cannot be connected or is not healthy, the command
\* gets no further than the health check: no task is started, nothing is
\* counted, logged or returned, the cache file is neither loaded nor
\* written and the store is left as it was.
C17_RunLevelFailureFirst ==
    /\ [](chroma # "up"
          => /\ pc \in {"connect", "health", "aborted"}
             /\ task = [f \in Files |-> NoTask]
             /\ results = [f \in Files |-> NoOutcome]
             /\ progress = NoProgress
             /\ log = << >>
             /\ result = NoResult
             /\ cache = EmptyCache)
    /\ [][(chroma # "up" /\ run' = run)
          => UNCHANGED <<cache, diskCache, lastUpsert, collection>>]_vars

\* a second invocation was aborted at the health check, after a first one
\* that ingested the first file and wrote the cache file
C17_Witness ==
    /\ pc = "aborted"
    /\ chroma = "unhealthy"
    /\ run = 2
    /\ diskCache.valid
    /\ diskCache.files[1].present
    /\ lastUpsert[1] # << >>

(* ===================== properties of the store ======================== *)

\* the ids the collection holds for file f
StoredIds(f) == {d.id : d \in {e \in collection : e.relativePath = relativePath(f)}}

\* the chunks the pipeline makes of the current content of f
CurrentChunks(f) == validChunksOf(extractChunks(fileContent[f], fileContent[f]))

\* their ids
CurrentIds(f) ==
    {ChunkId(f, CurrentChunks(f)[k], run) : k \in DOMAIN CurrentChunks(f)}

\* the task of f has worked on the text the file has now
TaskCurrent(f) ==
    /\ task[f].tree = fileContent[f]
    /\ \A k \in DOMAIN task[f].chunks : task[f].chunks[k].src = fileContent[f]

\* C18: supersession.  When the task of a file ends as processed, having
\* parsed and cut the text the file has now, the collection holds no chunk
\* of that file other than those the extraction of that text produces.
C18_Supersession ==
    [][\A f \in Files :
          (/\ results[f].status = "none"
           /\ results'[f].status = "processed"
           /\ TaskCurrent(f))
          => StoredIds(f)' \subseteq CurrentIds(f)]_vars

Kinds(f) ==
    [k \in DOMAIN lastUpsert[f] |-> ChunkMetadata(f, lastUpsert[f][k]).chunkType]

\* the kind the documentation gives the chunk: method for a function
\* declaration nested in a class-like node, function at the top level
DocumentedKind(chunk) ==
    LET types == NodeTypes(chunk.tree)
        parent == NodeParents(chunk.tree)[NodeOf(chunk)]
    IN IF types[NodeOf(chunk)] = "function_declaration"
       THEN IF parent # 0 /\ isClassLevel(types[parent])
            THEN "method" ELSE "function"
       ELSE mapNodeTypeToChunkType(types[NodeOf(chunk)])

\* C20: chunk kinds of nested units.  A processed file made of one class
\* with one method has two chunks, of kind class and then method, and
\* every chunk upserted has the documented kind.
C20_NestedKinds ==
    \A f \in Files :
        (results[f].status = "processed" /\ Threw(f) = "")
        => /\ fileContent[f] = "A" => Kinds(f) = <<"class", "method">>
           /\ \A k \in DOMAIN lastUpsert[f] :
                 Kinds(f)[k] = DocumentedKind(lastUpsert[f][k])

(* =================== properties of the change tracker ================== *)

Stored(f) ==
    /\ task[f].chunks # << >>
    /\ lastUpsert[f] = task[f].chunks
    /\ Documents(f, task[f].chunks, run) \subseteq collection

BatchOf(f) == (f - 1) \div batchSize

\* the files whose result the loop over the settled results has logged
Reported ==
    {log[i].file : i \in {j \in DOMAIN log : log[j].status # "parse_error"}}

\* the number of results that loop has counted
Counted ==
    progress.processedFiles + progress.skippedFiles + Len(progress.errors)

ResultEntries == {i \in DOMAIN log : log[i].status # "parse_error"}

\* C24 as stated: within a batch the results are logged in the order in
\* which the tasks settled.
C24_CompletionOrder ==
    \A i, j \in ResultEntries :
        (/\ i < j
         /\ BatchOf(log[i].file) = BatchOf(log[j].file)
         /\ task[log[i].file].settledAt > 0
         /\ task[log[j].file].settledAt > 0)
           => task[log[i].file].settledAt < task[log[j].file].settledAt

\* C24, amended: the results are logged and counted in the order in which
\* the files were submitted, whatever the order in which the tasks settled.
C24_SubmissionOrder ==
    /\ \A i, j \in ResultEntries : i < j => log[i].file < log[j].file
    /\ \A i, j \in DOMAIN progress.errors :
          i < j => progress.errors[i] < progress.errors[j]

\* the second file of a batch settled first and is logged second
C24_Witness ==
    \E i, j \in ResultEntries :
        /\ i < j
        /\ BatchOf(log[i].file) = BatchOf(log[j].file)
        /\ log[i].file < log[j].file
        /\ 0 < task[log[j].file].settledAt
        /\ task[log[j].file].settledAt < task[log[i].file].settledAt

\* the files of the run whose task settled with the given status
WithStatus(status) == {f \in Files : results[f].status = status}

RECURSIVE ChunkSum(_)
\* the chunk counts of the outcomes of the first n files, added up
ChunkSum(n) ==
    IF n = 0 THEN 0 ELSE ChunkSum(n - 1) + results[n].chunkCount

\* C25: the counts of the returned result are a function of the outcomes of
\* the files alone: whatever the interleaving of the tasks and the order in
\* which they settled, filesProcessed, filesSkipped and errors are the
\* numbers of files with each outcome and chunksCreated is the sum of their
\* chunk counts.
C25_OrderIndependentCounts ==
    result.returned
       => /\ result.filesProcessed = Cardinality(WithStatus("processed"))
          /\ result.filesSkipped = Cardinality(WithStatus("skipped"))
          /\ result.errors = Cardinality(WithStatus("error"))
          /\ result.chunksCreated = ChunkSum(NumFiles)

\* a run has returned whose first file failed and whose second file was
\* processed with chunks, and the counts say so
C25_Witness ==
    /\ result.returned
    /\ result.errors = 1
    /\ result.chunksCreated > 0
    /\ \E f, g \in Files :
          /\ f < g
          /\ results[f].status = "error"
          /\ results[g].status = "processed"
          /\ results[g].chunkCount = result.chunksCreated

\* the files whose task of this run has called updateFile and returned
ReachedUpdate ==
    {f \in Files : results[f].status = "processed" /\ results[f].chunkCount > 0}

C27_LoadSaveOnce ==
    /\ [](/\ ioCalls.load <= 1
          /\ ioCalls.save <= 1
          /\ (\E f \in Files : task[f].pc # "idle") => ioCalls.load = 1
          /\ InFlight # {} => ioCalls.save = 0
          /\ ioCalls.save = 1 => \A f \in Files : task[f].pc = "done"
          /\ result.returned => ioCalls = [load |-> 1, save |-> 1])
    /\ [][ioCalls' # ioCalls => (InFlight = {} /\ InFlight' = {})]_vars

\* a run of which every task has settled has saved the fingerprints it loaded
\* and those its tasks wrote
C27_Witness ==
    /\ pc = "return"
    /\ ioCalls = [load |-> 1, save |-> 1]
    /\ \E f \in Files : results[f].status = "processed" /\ diskCache.files[f].present
    /\ \E f \in Files : results[f].status = "skipped"

(* ====================== properties of extractChunks ==================== *)

RECURSIVE PathsOf(_, _)
\* the nodes of a tree, each as the path from the root to it
PathsOf(node, where) ==
    {where} \cup UNION {PathsOf(node.children[i], Append(where, i)) :
                          i \in DOMAIN node.children}

RECURSIVE NodeAt(_, _)
NodeAt(node, where) ==
    IF where = << >> THEN node
    ELSE NodeAt(node.children[Head(where)], Tail(where))

\* node a comes before node b in document order: a encloses b, or a lies in
\* an earlier child where the two paths part
Before(a, b) ==
    /\ a # b
    /\ \/ (Len(a) < Len(b) /\ SubSeq(b, 1, Len(a)) = a)
       \/ \E k \in 1..Min(Len(a), Len(b)) :
             /\ SubSeq(a, 1, k - 1) = SubSeq(b, 1, k - 1)
             /\ a[k] < b[k]

\* the nodes of a semantic-unit type whose text is not blank
UnitNodes ==
    {w \in PathsOf(exTree, << >>) :
        /\ NodeAt(exTree, w).type \in gosuSemanticUnits
        /\ NodeAt(exTree, w).text \notin {"", " "}}

\* C28: extractChunks returns one chunk for each node of a semantic-unit type
\* whose text is not blank, and no other; the chunks are in document order
\* (depth first, a node before its descendants); the index of each is its
\* position in this sequence; a node inside a node that gave a chunk gives
\* its own.
C28_ExtractionOrder ==
    exPc = "done"
       => /\ {exChunks[k].node : k \in DOMAIN exChunks} = UnitNodes
          /\ Len(exChunks) = Cardinality(UnitNodes)
          /\ \A i, j \in DOMAIN exChunks :
                i < j => Before(exChunks[i].node, exChunks[j].node)
          /\ \A k \in DOMAIN exChunks : exChunks[k].chunkIndex = k - 1

\* a class chunk is followed by the chunk of a function inside the class, and
\* a blank function before them gave no chunk
C28_Witness ==
    /\ exPc = "done"
    /\ \E i, j \in DOMAIN exChunks :
          /\ i < j
          /\ exChunks[i].chunkType = "class"
          /\ exChunks[j].chunkType = "function"
          /\ Len(exChunks[i].node) < Len(exChunks[j].node)
          /\ SubSeq(exChunks[j].node, 1, Len(exChunks[i].node)) = exChunks[i].node
          /\ \E w \in PathsOf(exTree, << >>) \ UnitNodes :
                /\ NodeAt(exTree, w).type = "function_declaration"
                /\ Before(w, exChunks[i].node)

\* C29: when the root of the tree has a package_declaration child, every
\* chunk of the file carries as its package the text of that declaration,
\* which is not empty; when it has none, no chunk has a package.
C29_PackageOfDeclaration ==
    exPc = "done"
       => LET packageNode == findChild(exTree, "package_declaration")
          IN \A k \in DOMAIN exChunks :
                IF packageNode # << >>
                THEN /\ exChunks[k].package = <<packageNode[1].text>>
                     /\ exChunks[k].package # <<"">>
                ELSE exChunks[k].package = << >>

(* ============== properties of the ids under concurrency =============== *)

\* the output sequence of extractChunks for the text of file f
OutputOf(f) == extractChunks(fileContent[f], fileContent[f])

\* the ids of a sequence of chunks of file f
IdsOf(f, chunks) == {ChunkId(f, chunks[k], run) : k \in DOMAIN chunks}

Rules ==
    <<[keys |-> {"maximum context length", "token"}, status |-> "token_limit"],
      [keys |-> {"rate limit", "429"}, status |-> "rate_limit"],
      [keys |-> {"parse", "syntax"}, status |-> "parse_error"],
      [keys |-> {"chunk"}, status |-> "chunk_error"],
      [keys |-> {"embed"}, status |-> "embedding_error"],
      [keys |-> {"chroma", "upsert"}, status |-> "storage_error"]>>

\* the rules that match a message, by their position
Matching(message) ==
    {r \in DOMAIN Rules :
        \E key \in Rules[r].keys : includes(toLowerCase(message), key)}

\* C31: categorizeError returns the category of the first rule, in the order
\* token limit, rate limit, parse, chunk, embedding, storage, of which a
\* keyword occurs in the lower-cased message; it returns unknown_error
\* exactly when no rule matches; it never returns success or skipped.
C31_FirstMatch ==
    errPc = "done"
       => /\ \A r \in Matching(errMessage) :
                (\A q \in Matching(errMessage) : r <= q)
                   => errStatus = Rules[r].status
          /\ (errStatus = "unknown_error") <=> (Matching(errMessage) = {})
          /\ errStatus \notin {"success", "skipped"}

\* a message that matches the rate-limit rule and the token-limit rule has
\* been given the category of the earlier one
C31_Witness ==
    /\ errPc = "done"
    /\ {1, 2} \subseteq Matching(errMessage)
    /\ errStatus = "token_limit"

(* ============= properties of the lines of the sub-chunks ============== *)

\* C32: whenever splitOversizedChunk returns the sub-chunks of an oversized
\* parent, their start lines are non-decreasing in the order of the
\* sub-chunks, and so are their end lines.
C32_LinesMonotonic ==
    (splitPc = "done" /\ Len(splitIn.content) > splitIn.maxSize)
       => \A i, j \in DOMAIN subChunks :
             i < j => /\ subChunks[i].lineStart <= subChunks[j].lineStart
                      /\ subChunks[i].lineEnd <= subChunks[j].lineEnd

\* a parent has been split into sub-chunks of which a later one starts on a
\* later line than the first
C32_Witness ==
    /\ splitPc = "done"
    /\ Len(subChunks) >= 3
    /\ subChunks[1].lineStart < subChunks[Len(subChunks)].lineStart
    /\ splitIn.overlapSize > 0

\* C40: with 0 <= overlap < maxSize, every sub-chunk that
\* splitOversizedChunk returns starts on a line that is not after the line
\* on which it ends.
C40_LineRangeWellFormed ==
    (splitPc = "done" /\ splitIn.overlapSize < splitIn.maxSize)
       => \A i \in DOMAIN subChunks :
             subChunks[i].lineStart <= subChunks[i].lineEnd

(* ================ properties of the stored fingerprints =============== *)

\* C33: fingerprints are removed only by removeFile. No step of a run of
\* ingest deletes a fingerprint from the map, the cache file never loses a
\* fingerprint, the fingerprint of a file that is no longer discovered is
\* saved unchanged, and removeFile(path) deletes the entry of path and
\* changes no other entry.
C33_RemovedOnlyExplicitly ==
    [][\A f \in Files :
          /\ (pc # "done" /\ cache[f].present) => cache'[f].present
          /\ (diskCache.valid /\ diskCache.files[f].present)
                => /\ diskCache'.files[f].present
                   /\ fileContent[f] = Deleted
                         => diskCache'.files[f] = diskCache.files[f]
          /\ (pc = "done" /\ pc' = "done" /\ cache[f].present /\ ~cache'[f].present)
                => \A g \in Files \ {f} : cache'[g] = cache[g]]_vars

\* a run has saved the cache after a file with a fingerprint was deleted
\* from the tree, and the fingerprint is in the saved cache
C33_Witness ==
    /\ run = 2
    /\ pc = "return"
    /\ \E f \in Files :
          /\ fileContent[f] = Deleted
          /\ diskCache.files[f].present
          /\ \E g \in Files \ {f} : results[g].status # "none"

\* the cache file holds a cache document: it parses and every entry of its
\* files object is a fingerprint record
ValidDocument(disk) ==
    /\ disk.valid
    /\ \A f \in Files : disk.files[f].present
                           => disk.files[f].lastModified # Undefined

\* C34: when the cache file is missing, unreadable or not a valid cache
\* document, the run that loads it has an empty fingerprint map after load
\* and skips no file.
C34_TornCacheHarmless ==
    (run = 1 /\ pc \in {"discover", "launch", "await", "save"}
       /\ ~ValidDocument(diskCache))
       => /\ pc = "discover" => cache = EmptyCache
          /\ \A f \in Files : results[f].status # "skipped"

(* ================= properties of the provider's retries =============== *)

\* an error of rate limiting: status 429 or the wording of a rate limit
RateLimitError(error) ==
    \/ error.status = 429
    \/ \E wording \in {"429", "rate limit", "quota"} :
          includes(toLowerCase(error.message), wording)

RECURSIVE ProcessedChunks(_)
\* the chunk counts of the processed files among the first n, added up
ProcessedChunks(n) ==
    IF n = 0 THEN 0
    ELSE ProcessedChunks(n - 1)
           + (IF results[n].status = "processed" THEN results[n].chunkCount ELSE 0)

\* C36: the counters of a run never add up to more than the number of
\* discovered files N; in the result of a finished run filesProcessed +
\* filesSkipped + errors = N and chunksCreated is the sum of the chunk counts
\* of the processed files.
C36_OutcomeAccounting ==
    /\ progress.processedFiles + progress.skippedFiles + Len(progress.errors)
          <= Len(discovered)
    /\ result.returned
          => /\ result.filesProcessed + result.filesSkipped + result.errors
                   = Len(discovered)
             /\ result.chunksCreated = ProcessedChunks(NumFiles)

\* a second run has returned with a skipped file, a failed file and nothing
\* else
C36_Witness ==
    /\ result.returned
    /\ run = 2
    /\ result.filesSkipped >= 1
    /\ result.errors >= 1
    /\ result.filesProcessed = NumFiles - result.filesSkipped - result.errors

(* =================== properties of the logged outcomes ================ *)

\* the entries the logger holds for file f in this session
EntriesOf(f) == {i \in DOMAIN log : log[i].file = f}

\* C37: each discovered file produces exactly one outcome record sent to the
\* logger, with one of the statuses skipped, success or a classified error;
\* no file is logged with two different statuses in the same session.
C37_OneOutcomePerFile ==
    /\ \A i \in DOMAIN log :
          log[i].status \in {"skipped", "success", "error", "parse_error"}
    /\ \A f \in Files : Cardinality(EntriesOf(f)) <= 1
    /\ pc \in {"save", "return", "done"}
          => \A f \in Files : Cardinality(EntriesOf(f)) = 1

(* ================= properties of the runs after a failure ============= *)

\* the task of f has not yet had the answer of hasFileChanged in this run
BeforeAnswer(f) ==
    /\ pc \in {"discover", "launch", "await"}
    /\ task[f].pc \in {"idle", "stat"}
    /\ results[f].status = "none"

C39_TreeAndSourceAgree ==
    \A f \in Files :
        \A k \in DOMAIN task[f].chunks :
            task[f].chunks[k].src = task[f].chunks[k].tree

====
